---- MODULE Spec2Model ----
(***************************************************************************)
(* A model of the natural-language task manager: the task store (SQLite   *)
(* table `tasks`), the five tool handlers of agent.py, the dispatchers of  *)
(* agent.py and app.py, and the bounded command loops process_user_input   *)
(* (REPL) and process_command (web).                                       *)
(*                                                                         *)
(* Text is modelled as a sequence of one-character strings, so that        *)
(* strip(), lower(), len(), strptime() and SQLite's text ordering are      *)
(* computed as the code computes them.                                     *)
(***************************************************************************)
EXTENDS Integers, Sequences, FiniteSets, TLC

VARIABLES
    tasks,      \* the rows of table tasks: a function from id to row
    seq,        \* sqlite_sequence for tasks: the largest id ever assigned
    now,        \* the store's clock, datetime('now'), in seconds
    last,       \* the latest tool call: its name, its arguments, its result
    ever,       \* history: every id that a row of tasks has had so far
    variant,    \* which command loop the invocation runs: "repl" or "web"
    pc,         \* the invocation's position in the command loop
    rounds,     \* the loop's round counter
    llmCalls,   \* client.messages.create calls made by the invocation
    response,   \* the LLM response being processed
    messages,   \* the conversation of the invocation
    outcome,    \* how the latest invocation ended
    api_key,    \* whether ANTHROPIC_API_KEY is set in the environment
    client,     \* whether agent.client has been initialised
    user_id,    \* the user_id argument of process_command, None otherwise
    command,    \* the user_message argument of the latest invocation
    failure,    \* the exception client.messages.create raised in the latest
                \* invocation, "none" when it raised none
    connections, \* the store connections that are open, by who opened them
    inflight,   \* per concurrent invocation: the handler call that has read
                \* its row and has its write still to do, if any
    deleteReports \* history: per task id, how many calls answered that they
                \* deleted it

vars == <<tasks, seq, now, last, ever, variant, pc, rounds, llmCalls, response,
          messages, outcome, api_key, client, user_id, command, failure,
          connections, inflight, deleteReports>>

storeVars == <<tasks, seq, now, last, ever>>
loopVars == <<variant, pc, rounds, llmCalls, response, messages, outcome,
              api_key, client, user_id, command, failure, connections>>
raceVars == <<inflight, deleteReports>>

(***************************************************************************)
(* Bounds of the model                                                     *)
(***************************************************************************)
MaxTasks == 2       \* add_task is explored until this many ids are assigned
MaxClock == 1       \* the clock is explored up to this second
MaxVariedRounds == 2 \* rounds of an invocation in which every response of
                     \* the LLM is explored; later rounds explore the final
                     \* answers, the failures and one tool request

(***************************************************************************)
(* Program constants                                                       *)
(***************************************************************************)
MAX_INPUT_LENGTH == 1000
MAX_TOOL_ROUNDS == 10
max_rounds == 10
MaxTitleLen == 200
MaxCategoryLen == 50

(***************************************************************************)
(* Values: Python / SQLite values as tagged records                        *)
(***************************************************************************)
Text(s) == [t |-> "text", s |-> s, n |-> 0]
IntVal(k) == [t |-> "int", s |-> <<>>, n |-> k]
None == [t |-> "null", s |-> <<>>, n |-> 0]

IsText(v) == v.t = "text"
IsNone(v) == v.t = "null"

\* Python truthiness: None, "" and 0 are falsy
Truthy(v) ==
    CASE v.t = "text" -> v.s # <<>>
      [] v.t = "int" -> v.n # 0
      [] OTHER -> FALSE

\* dict.get(key, default)
Get(data, key, default) == IF key \in DOMAIN data THEN data[key] ELSE default

(***************************************************************************)
(* Characters                                                              *)
(***************************************************************************)
\* the characters of the model, in ASCII order
CharOrder ==
    <<" ", "-", "0", "1", "2", "3", "4", "5", "6", "7", "8", "9",
      "K", "O", "R", "W", "a", "b", "d", "k", "o", "r", "w", "x">>

Code(c) == CHOOSE i \in 1..Len(CharOrder) : CharOrder[i] = c

Digits == {"0", "1", "2", "3", "4", "5", "6", "7", "8", "9"}
DigitVal(c) == Code(c) - Code("0")
Whitespace == {" "}

\* ASCII lower-casing of one character (str.lower() and SQLite LOWER() agree
\* on ASCII)
LowerChar(c) ==
    CASE c = "K" -> "k"
      [] c = "O" -> "o"
      [] c = "R" -> "r"
      [] c = "W" -> "w"
      [] OTHER -> c

lower(s) == [i \in 1..Len(s) |-> LowerChar(s[i])]

\* str.strip(): drop leading and trailing whitespace
RECURSIVE lstrip(_)
lstrip(s) ==
    IF s # <<>> /\ Head(s) \in Whitespace THEN lstrip(Tail(s)) ELSE s

RECURSIVE rstrip(_)
rstrip(s) ==
    IF s # <<>> /\ s[Len(s)] \in Whitespace
    THEN rstrip(SubSeq(s, 1, Len(s) - 1))
    ELSE s

strip(s) == rstrip(lstrip(s))

\* a text of n filler characters
Filler(n) == [i \in 1..n |-> "x"]

\* SQLite BINARY collation: memcmp, a proper prefix sorts first
RECURSIVE TextLess(_, _)
TextLess(a, b) ==
    IF b = <<>> THEN FALSE
    ELSE IF a = <<>> THEN TRUE
    ELSE IF Head(a) # Head(b) THEN Code(Head(a)) < Code(Head(b))
    ELSE TextLess(Tail(a), Tail(b))

(***************************************************************************)
(* datetime.strptime(s, "%Y-%m-%d")                                        *)
(***************************************************************************)
\* the positions of "-" in s
Dashes(s) == {i \in 1..Len(s) : s[i] = "-"}

AllDigits(s) == \A i \in 1..Len(s) : s[i] \in Digits

RECURSIVE Number(_)
Number(s) ==
    IF s = <<>> THEN 0
    ELSE 10 * Number(SubSeq(s, 1, Len(s) - 1)) + DigitVal(s[Len(s)])

\* %Y : \d\d\d\d
MatchesYear(s) == Len(s) = 4 /\ AllDigits(s)

\* %m : 1[0-2]|0[1-9]|[1-9]
MatchesMonth(s) ==
    \/ Len(s) = 2 /\ s[1] = "1" /\ s[2] \in {"0", "1", "2"}
    \/ Len(s) = 2 /\ s[1] = "0" /\ s[2] \in Digits \ {"0"}
    \/ Len(s) = 1 /\ s[1] \in Digits \ {"0"}

\* %d : 3[01]|[12]\d|0[1-9]|[1-9]| [1-9]
MatchesDay(s) ==
    \/ Len(s) = 2 /\ s[1] = "3" /\ s[2] \in {"0", "1"}
    \/ Len(s) = 2 /\ s[1] \in {"1", "2"} /\ s[2] \in Digits
    \/ Len(s) = 2 /\ s[1] = "0" /\ s[2] \in Digits \ {"0"}
    \/ Len(s) = 1 /\ s[1] \in Digits \ {"0"}
    \/ Len(s) = 2 /\ s[1] = " " /\ s[2] \in Digits \ {"0"}

IsLeap(y) == (y % 4 = 0 /\ y % 100 # 0) \/ y % 400 = 0

DaysInMonth(y, m) ==
    IF m = 2 THEN (IF IsLeap(y) THEN 29 ELSE 28)
    ELSE IF m \in {4, 6, 9, 11} THEN 30
    ELSE 31

\* a parser that tests the shape \d\d\d\d-\d\d-\d\d and nothing else
strptimeFormatOnly(s) ==
    /\ Len(s) = 10
    /\ s[5] = "-"
    /\ s[8] = "-"
    /\ \A i \in (1..10) \ {5, 8} : s[i] \in Digits

\* TRUE when strptime returns a datetime, FALSE when it raises ValueError:
\* the regular expression of the format must match the whole text and the
\* fields must name a day that exists
strptime(s) ==
    /\ Cardinality(Dashes(s)) = 2
    /\ LET d1 == CHOOSE i \in Dashes(s) : \A j \in Dashes(s) : i <= j
           d2 == CHOOSE i \in Dashes(s) : \A j \in Dashes(s) : j <= i
           ys == SubSeq(s, 1, d1 - 1)
           ms == SubSeq(s, d1 + 1, d2 - 1)
           ds == SubSeq(s, d2 + 1, Len(s))
       IN  /\ MatchesYear(ys)
           /\ MatchesMonth(ms)
           /\ MatchesDay(ds)
           /\ Number(ys) >= 1
           /\ Number(lstrip(ds)) <= DaysInMonth(Number(ys), Number(ms))

(***************************************************************************)
(* The store: table tasks                                                  *)
(***************************************************************************)
low == <<"l", "o", "w">>
medium == <<"m", "e", "d", "i", "u", "m">>
high == <<"h", "i", "g", "h">>
urgent == <<"u", "r", "g", "e", "n", "t">>
pending == <<"p", "e", "n", "d", "i", "n", "g">>
in_progress == <<"i", "n", "_", "p", "r", "o", "g", "r", "e", "s", "s">>
completed == <<"c", "o", "m", "p", "l", "e", "t", "e", "d">>

VALID_PRIORITIES == {Text(low), Text(medium), Text(high), Text(urgent)}
VALID_STATUSES == {Text(pending), Text(in_progress), Text(completed)}

\* the decimal text of a natural number
RECURSIVE Decimal(_)
Decimal(k) ==
    IF k < 10 THEN <<CharOrder[Code("0") + k]>>
    ELSE Decimal(k \div 10) \o <<CharOrder[Code("0") + (k % 10)]>>

\* a value bound to a column of TEXT affinity: numbers are stored as text
ToText(v) == IF v.t = "int" THEN Text(Decimal(v.n)) ELSE v

\* a value compared with the INTEGER PRIMARY KEY: the row id it names, or 0
\* when it names none
RowId(v) ==
    CASE v.t = "int" -> v.n
      [] v.t = "text" /\ v.s # <<>> /\ AllDigits(v.s) -> Number(v.s)
      [] OTHER -> 0

\* the connection a handler works on: the table, its sequence and the clock
Conn == [tasks |-> tasks, seq |-> seq, now |-> now]

\* CREATE TABLE tasks: the state of a new database
init_db == [tasks |-> <<>>, seq |-> 0]

Max(a, b) == IF a >= b THEN a ELSE b

MaxRowId(t) ==
    IF DOMAIN t = {} THEN 0
    ELSE CHOOSE i \in DOMAIN t : \A j \in DOMAIN t : j <= i

\* the id of a plain INTEGER PRIMARY KEY: one more than the largest id in
\* the table
NextIdWithoutSequence(conn) == MaxRowId(conn.tasks) + 1

\* the id INSERT assigns under AUTOINCREMENT: one more than the largest id
\* the table ever held
NextId(conn) == Max(conn.seq, MaxRowId(conn.tasks)) + 1

\* INSERT INTO tasks (title, description, priority, due_date, category):
\* status and created_at take their column defaults
Insert(conn, title, description, priority, due_date, category) ==
    LET id == NextId(conn)
        row == [title |-> ToText(title),
                description |-> ToText(description),
                priority |-> ToText(priority),
                status |-> Text(pending),
                created_at |-> conn.now,
                due_date |-> ToText(due_date),
                category |-> ToText(category)]
    IN  [conn EXCEPT !.tasks = [i \in DOMAIN conn.tasks \cup {id} |->
                                    IF i = id THEN row ELSE conn.tasks[i]],
                     !.seq = id]

\* SELECT * FROM tasks WHERE id = ?
HasRow(conn, task_id) == RowId(task_id) \in DOMAIN conn.tasks

\* DELETE FROM tasks WHERE id = ?
Delete(conn, task_id) ==
    [conn EXCEPT !.tasks = [i \in DOMAIN conn.tasks \ {RowId(task_id)} |->
                                conn.tasks[i]]]

\* column = ? in a WHERE clause: NULL equals nothing
SqlEq(col, param) == ~IsNone(col) /\ ~IsNone(param) /\ col = ToText(param)

\* LOWER(column) = ? : the parameter is compared as given
SqlEqLowerColumnOnly(col, param) ==
    /\ ~IsNone(col)
    /\ ~IsNone(param)
    /\ lower(col.s) = ToText(param).s

\* LOWER(column) = LOWER(?)
SqlEqLower(col, param) ==
    /\ ~IsNone(col)
    /\ ~IsNone(param)
    /\ lower(col.s) = lower(ToText(param).s)

(***************************************************************************)
(* Tool handlers: each returns the connection after the call and the       *)
(* result text, as a record naming the message and its fields              *)
(***************************************************************************)
Return(conn, result) == [conn |-> conn, result |-> result, raised |-> FALSE]

\* an exception that leaves the callee
Raise(conn, exception) ==
    [conn |-> conn, result |-> [kind |-> exception], raised |-> TRUE]

\* the text appended to a line when the value is truthy, NoSuffix otherwise
NoSuffix == None
Suffix(v) == IF Truthy(v) THEN v ELSE NoSuffix

\* a default taken from the wrong end of the scale
AddDefaultPriorityLow == Text(low)

\* data.get("priority", "medium")
AddDefaultPriority == Text(medium)

handle_add_task(conn, data) ==
    LET tv == Get(data, "title", Text(<<>>))
        title == strip(tv.s)
        description == Get(data, "description", Text(<<>>))
        priority == Get(data, "priority", AddDefaultPriority)
        due_date == Get(data, "due_date", None)
        category == Get(data, "category", None)
    IN  IF ~IsText(tv)
        THEN Return(conn, [kind |-> "Error adding task"])
        ELSE IF title = <<>>
        THEN Return(conn, [kind |-> "Error: task title cannot be empty."])
        ELSE IF Len(title) > MaxTitleLen
        THEN Return(conn, [kind |-> "Error: task title is too long"])
        ELSE IF priority \notin VALID_PRIORITIES
        THEN Return(conn, [kind |-> "Error: invalid priority", value |-> priority])
        ELSE IF Truthy(due_date) /\ ~IsText(due_date)
        THEN Return(conn, [kind |-> "Error adding task"])
        ELSE IF Truthy(due_date) /\ ~strptime(due_date.s)
        THEN Return(conn, [kind |-> "Error: invalid due date format",
                           value |-> due_date])
        ELSE IF Truthy(category) /\ ~IsText(category)
        THEN Return(conn, [kind |-> "Error adding task"])
        ELSE IF Truthy(category) /\ Len(category.s) > MaxCategoryLen
        THEN Return(conn, [kind |-> "Error: category name is too long"])
        ELSE Return(Insert(conn, Text(title), description, priority,
                           due_date, category),
                    [kind |-> "Task added",
                     id |-> NextId(conn),
                     title |-> Text(title),
                     priority |-> priority,
                     due |-> Suffix(due_date),
                     category |-> Suffix(category)])

(***************************************************************************)
(* list_tasks                                                              *)
(***************************************************************************)
sort_due_date == <<"d", "u", "e", "_", "d", "a", "t", "e">>
sort_priority == <<"p", "r", "i", "o", "r", "i", "t", "y">>
sort_created_at == <<"c", "r", "e", "a", "t", "e", "d", "_", "a", "t">>

\* the WHERE clause built from the keys present in data
Matches(row, data) ==
    /\ "status" \in DOMAIN data => SqlEq(row.status, data.status)
    /\ "priority" \in DOMAIN data => SqlEq(row.priority, data.priority)
    /\ "category" \in DOMAIN data => SqlEqLower(row.category, data.category)

\* the order of a plain ORDER BY priority: the text order of the names
PriorityRankAlphabetical(p) ==
    CASE p = Text(high) -> 0
      [] p = Text(low) -> 1
      [] p = Text(medium) -> 2
      [] p = Text(urgent) -> 3
      [] OTHER -> -1

\* CASE priority WHEN 'urgent' THEN 0 ... WHEN 'low' THEN 3 END; the CASE
\* yields NULL for any other value, and NULL sorts before every number
PriorityRank(p) ==
    CASE p = Text(urgent) -> 0
      [] p = Text(high) -> 1
      [] p = Text(medium) -> 2
      [] p = Text(low) -> 3
      [] OTHER -> -1

\* ORDER BY (due_date IS NULL), due_date ASC, id ASC
DueDateBefore(t, i, j) ==
    LET ni == IF IsNone(t[i].due_date) THEN 1 ELSE 0
        nj == IF IsNone(t[j].due_date) THEN 1 ELSE 0
    IN  IF ni # nj THEN ni < nj
        ELSE IF ni = 0 /\ t[i].due_date # t[j].due_date
        THEN TextLess(t[i].due_date.s, t[j].due_date.s)
        ELSE i < j

\* ORDER BY CASE priority ... END, id ASC
PriorityBefore(t, i, j) ==
    IF PriorityRank(t[i].priority) # PriorityRank(t[j].priority)
    THEN PriorityRank(t[i].priority) < PriorityRank(t[j].priority)
    ELSE i < j

\* ORDER BY created_at DESC, id DESC
CreatedAtBefore(t, i, j) ==
    IF t[i].created_at # t[j].created_at
    THEN t[i].created_at > t[j].created_at
    ELSE i > j

\* the ORDER BY clause chosen by data.get("sort_by")
Before(t, sort_by, i, j) ==
    CASE sort_by = Text(sort_due_date) -> DueDateBefore(t, i, j)
      [] sort_by = Text(sort_priority) -> PriorityBefore(t, i, j)
      [] sort_by = Text(sort_created_at) -> CreatedAtBefore(t, i, j)
      [] OTHER -> i < j

\* the ids of S in the order of the ORDER BY clause
RECURSIVE Ordered(_, _, _)
Ordered(t, sort_by, S) ==
    IF S = {} THEN <<>>
    ELSE LET first == CHOOSE i \in S :
                          \A j \in S \ {i} : Before(t, sort_by, i, j)
         IN  <<first>> \o Ordered(t, sort_by, S \ {first})

\* one line of the listing: "  [id] title | priority: p | status: s" and
\* the optional suffixes " | due: d" and " | category: c"
Line(t, i) ==
    [id |-> i,
     title |-> t[i].title,
     priority |-> t[i].priority,
     status |-> t[i].status,
     due |-> Suffix(t[i].due_date),
     category |-> Suffix(t[i].category)]

handle_list_tasks(conn, data) ==
    LET t == conn.tasks
        selected == {i \in DOMAIN t : Matches(t[i], data)}
        rows == Ordered(t, Get(data, "sort_by", None), selected)
    IN  IF rows = <<>>
        THEN Return(conn, [kind |-> "No tasks found."])
        ELSE Return(conn, [kind |-> "Found",
                           count |-> Len(rows),
                           lines |-> [k \in 1..Len(rows) |-> Line(t, rows[k])]])

(***************************************************************************)
(* update_task, complete_task, delete_task                                 *)
(***************************************************************************)
updatable == <<"title", "description", "priority", "status", "due_date",
               "category">>

\* a validation that tests the priority only and lets every status pass
ValidateFieldPriorityOnly(field, val) ==
    IF field = "priority" /\ val \notin VALID_PRIORITIES
    THEN "Error: invalid priority"
    ELSE "ok"

\* the outcome of the validation of one field of update_task: "ok", or the
\* error the handler returns
ValidateField(field, val) ==
    CASE field = "title" ->
             IF ~Truthy(val) THEN "Error: title cannot be empty."
             ELSE IF ~IsText(val) THEN "Error updating task"
             ELSE IF strip(val.s) = <<>> THEN "Error: title cannot be empty."
             ELSE "ok"
      [] field = "priority" ->
             IF val \notin VALID_PRIORITIES THEN "Error: invalid priority"
             ELSE "ok"
      [] field = "status" ->
             IF val \notin VALID_STATUSES THEN "Error: invalid status"
             ELSE "ok"
      [] field = "due_date" ->
             IF ~Truthy(val) THEN "ok"
             ELSE IF ~IsText(val) THEN "Error updating task"
             ELSE IF ~strptime(val.s) THEN "Error: invalid due date format"
             ELSE "ok"
      [] OTHER -> "ok"

\* every value written as given
UpdateValueVerbatim(field, val) == ToText(val)

\* the value update_task writes for a field: an empty category becomes NULL
UpdateValue(field, val) ==
    IF field = "category" /\ val = Text(<<>>) THEN None ELSE ToText(val)

\* the fields of data that update_task visits, in the order of `updatable`
PresentFields(data) ==
    SelectSeq(updatable, LAMBDA f : f \in DOMAIN data)

\* the first validation error in the order of the loop, or "ok"
RECURSIVE FirstError(_, _)
FirstError(fields, data) ==
    IF fields = <<>> THEN "ok"
    ELSE IF ValidateField(Head(fields), data[Head(fields)]) # "ok"
    THEN ValidateField(Head(fields), data[Head(fields)])
    ELSE FirstError(Tail(fields), data)

\* an UPDATE without its WHERE clause
UpdateEveryRow(conn, task_id, fields, data) ==
    LET present == {fields[k] : k \in 1..Len(fields)}
    IN  [conn EXCEPT !.tasks =
            [i \in DOMAIN conn.tasks |->
                [f \in DOMAIN conn.tasks[i] |->
                    IF f \in present THEN UpdateValue(f, data[f])
                    ELSE conn.tasks[i][f]]]]

\* UPDATE tasks SET f1 = ?, ... WHERE id = ?
Update(conn, task_id, fields, data) ==
    LET id == RowId(task_id)
        present == {fields[k] : k \in 1..Len(fields)}
    IN  [conn EXCEPT !.tasks[id] =
            [f \in DOMAIN conn.tasks[id] |->
                IF f \in present THEN UpdateValue(f, data[f])
                ELSE conn.tasks[id][f]]]

\* an update_task that writes the fields that pass their validation before
\* it reports the one that fails
handle_update_task_partial(conn, data) ==
    LET task_id == Get(data, "task_id", None)
        fields == PresentFields(data)
        valid == SelectSeq(fields, LAMBDA f : ValidateField(f, data[f]) = "ok")
    IN  IF IsNone(task_id)
        THEN Return(conn, [kind |-> "Error: task_id is required."])
        ELSE IF ~HasRow(conn, task_id)
        THEN Return(conn, [kind |-> "No task found with ID", id |-> task_id])
        ELSE IF FirstError(fields, data) # "ok"
        THEN Return(Update(conn, task_id, valid, data),
                    [kind |-> FirstError(fields, data)])
        ELSE IF fields = <<>>
        THEN Return(conn, [kind |-> "No fields to update."])
        ELSE Return(Update(conn, task_id, fields, data),
                    [kind |-> "Task updated successfully", id |-> task_id])

handle_update_task(conn, data) ==
    LET task_id == Get(data, "task_id", None)
        fields == PresentFields(data)
    IN  IF IsNone(task_id)
        THEN Return(conn, [kind |-> "Error: task_id is required."])
        ELSE IF ~HasRow(conn, task_id)
        THEN Return(conn, [kind |-> "No task found with ID", id |-> task_id])
        ELSE IF FirstError(fields, data) # "ok"
        THEN Return(conn, [kind |-> FirstError(fields, data)])
        ELSE IF fields = <<>>
        THEN Return(conn, [kind |-> "No fields to update."])
        ELSE Return(Update(conn, task_id, fields, data),
                    [kind |-> "Task updated successfully", id |-> task_id])

\* an UPDATE whose change is lost: never committed, or rolled back
SetCompletedUncommitted(conn, task_id) == conn

\* UPDATE tasks SET status = 'completed' WHERE id = ?
SetCompleted(conn, task_id) ==
    [conn EXCEPT !.tasks[RowId(task_id)].status = Text(completed)]

\* complete_task without the test for a task that is completed already
handle_complete_task_unchecked(conn, data) ==
    LET task_id == Get(data, "task_id", None)
    IN  IF IsNone(task_id)
        THEN Return(conn, [kind |-> "Error: task_id is required."])
        ELSE IF ~HasRow(conn, task_id)
        THEN Return(conn, [kind |-> "No task found with ID", id |-> task_id])
        ELSE Return(SetCompleted(conn, task_id),
                    [kind |-> "Task marked as completed",
                     id |-> task_id,
                     title |-> conn.tasks[RowId(task_id)].title])

handle_complete_task(conn, data) ==
    LET task_id == Get(data, "task_id", None)
    IN  IF IsNone(task_id)
        THEN Return(conn, [kind |-> "Error: task_id is required."])
        ELSE IF ~HasRow(conn, task_id)
        THEN Return(conn, [kind |-> "No task found with ID", id |-> task_id])
        ELSE IF conn.tasks[RowId(task_id)].status = Text(completed)
        THEN Return(conn, [kind |-> "Task is already completed",
                           id |-> task_id])
        ELSE Return(SetCompleted(conn, task_id),
                    [kind |-> "Task marked as completed",
                     id |-> task_id,
                     title |-> conn.tasks[RowId(task_id)].title])

\* delete_task that trusts the DELETE statement and skips the lookup
handle_delete_task_unchecked(conn, data) ==
    LET task_id == Get(data, "task_id", None)
    IN  IF IsNone(task_id)
        THEN Return(conn, [kind |-> "Error: task_id is required."])
        ELSE Return(Delete(conn, task_id),
                    [kind |-> "Task deleted", id |-> task_id, title |-> None])

handle_delete_task(conn, data) ==
    LET task_id == Get(data, "task_id", None)
    IN  IF IsNone(task_id)
        THEN Return(conn, [kind |-> "Error: task_id is required."])
        ELSE IF ~HasRow(conn, task_id)
        THEN Return(conn, [kind |-> "No task found with ID", id |-> task_id])
        ELSE Return(Delete(conn, task_id),
                    [kind |-> "Task deleted",
                     id |-> task_id,
                     title |-> conn.tasks[RowId(task_id)].title])

(***************************************************************************)
(* Tool dispatchers                                                        *)
(***************************************************************************)
TOOL_HANDLERS ==
    {"add_task", "list_tasks", "update_task", "complete_task", "delete_task"}

\* TOOL_HANDLERS[tool_name](conn, data)
Handler(tool_name, conn, data) ==
    CASE tool_name = "add_task" -> handle_add_task(conn, data)
      [] tool_name = "list_tasks" -> handle_list_tasks(conn, data)
      [] tool_name = "update_task" -> handle_update_task(conn, data)
      [] tool_name = "complete_task" -> handle_complete_task(conn, data)
      [] tool_name = "delete_task" -> handle_delete_task(conn, data)

\* agent.execute_tool
execute_tool(conn, tool_name, tool_input) ==
    IF tool_name \in TOOL_HANDLERS
    THEN Handler(tool_name, conn, tool_input)
    ELSE Return(conn, [kind |-> "Unknown tool", name |-> tool_name])

\* the parameters of every handler: def handle_x(conn, data)
HandlerParameters == {"conn", "data"}

\* app.execute_tool: handler(conn, tool_input, user_id=user_id); a keyword
\* the handler does not declare is a TypeError at the call
app_execute_tool(conn, tool_name, tool_input, user) ==
    IF tool_name \in TOOL_HANDLERS
    THEN IF "user_id" \in HandlerParameters
         THEN Handler(tool_name, conn, tool_input)
         ELSE Raise(conn, "TypeError")
    ELSE Return(conn, [kind |-> "Unknown tool", name |-> tool_name])

(***************************************************************************)
(* Tool calls on the store                                                 *)
(***************************************************************************)
NoOutcome == [kind |-> "none", value |-> <<>>]

NoCall == [tool |-> "none", input |-> <<>>, result |-> [kind |-> "none"]]

\* the invocations that may run at the same time on the store
Invocations == {1, 2}

\* an invocation that is not between the read and the write of a handler
NoStatement == [pc |-> "idle"]

\* one call of agent.execute_tool on the store's connection
Call(tool_name, data) ==
    \E r \in {execute_tool(Conn, tool_name, data)} :
        /\ tasks' = r.conn.tasks
        /\ seq' = r.conn.seq
        /\ last' = [tool |-> tool_name, input |-> data, result |-> r.result]
        /\ ever' = ever \cup DOMAIN r.conn.tasks
        /\ UNCHANGED now

\* the dicts that give each key of `options` one of its values or leave it
\* out (a value of Absent leaves the key out)
Absent == [t |-> "absent", s |-> <<>>, n |-> 0]

RECURSIVE DictsOver(_, _)
DictsOver(options, keys) ==
    IF keys = {} THEN {<<>>}
    ELSE LET k == CHOOSE x \in keys : TRUE
             rest == DictsOver(options, keys \ {k})
         IN  UNION { { IF v = Absent THEN d ELSE (k :> v) @@ d :
                         v \in options[k] } : d \in rest }

Dicts(options) == DictsOver(options, DOMAIN options)

\* the task ids a caller names: the ids add_task can assign
TaskIds == {IntVal(k) : k \in 1..MaxTasks}

\* texts used as arguments
title_a == <<"a">>
title_a_padded == <<" ", "a", " ">>
blank == <<" ">>
date_padded == <<"2", "0", "2", "5", "-", "1", "0", "-", "0", "1">>
date_unpadded == <<"2", "0", "2", "5", "-", "9", "-", "1">>
date_feb_30 == <<"2", "0", "2", "6", "-", "0", "2", "-", "3", "0">>

AddInputs ==
    Dicts([title |-> {Text(title_a), Text(title_a_padded), Text(blank)},
           due_date |-> {Absent, Text(<<>>), Text(date_padded),
                         Text(date_unpadded), Text(date_feb_30)}])

ListInputs ==
    Dicts([sort_by |-> {Absent, Text(sort_due_date)},
           status |-> {Absent, Text(completed)}])

UpdateInputs ==
    Dicts([task_id |-> TaskIds,
           title |-> {Absent, Text(blank)},
           due_date |-> {Absent, Text(<<>>), Text(date_unpadded)}])

IdInputs == Dicts([task_id |-> TaskIds \cup {Absent}])

add_task(data) ==
    /\ seq < MaxTasks
    /\ Call("add_task", data)
    /\ UNCHANGED <<loopVars, raceVars>>

list_tasks(data) ==
    /\ Call("list_tasks", data)
    /\ UNCHANGED <<loopVars, raceVars>>

update_task(data) ==
    /\ Call("update_task", data)
    /\ UNCHANGED <<loopVars, raceVars>>

complete_task(data) ==
    /\ Call("complete_task", data)
    /\ UNCHANGED <<loopVars, raceVars>>

delete_task(data) ==
    /\ Call("delete_task", data)
    /\ UNCHANGED <<loopVars, raceVars>>

\* a second passes on the store's clock
Tick ==
    /\ now < MaxClock
    /\ now' = now + 1
    /\ UNCHANGED <<tasks, seq, last, ever>>
    /\ UNCHANGED <<loopVars, raceVars>>

Init ==
    /\ tasks = init_db.tasks
    /\ seq = init_db.seq
    /\ now = 0
    /\ last = NoCall
    /\ ever = {}
    /\ variant = "repl"
    /\ pc = "idle"
    /\ rounds = 0
    /\ llmCalls = 0
    /\ response = <<>>
    /\ messages = <<>>
    /\ outcome = NoOutcome
    /\ api_key = TRUE
    /\ client = TRUE
    /\ user_id = None
    /\ command = None
    /\ failure = "none"
    /\ connections = {"main"}
    /\ inflight = [p \in Invocations |-> NoStatement]
    /\ deleteReports = [i \in 1..MaxTasks |-> 0]

Next ==
    \/ \E data \in AddInputs : add_task(data)
    \/ \E data \in ListInputs : list_tasks(data)
    \/ \E data \in UpdateInputs : update_task(data)
    \/ \E data \in IdInputs : complete_task(data)
    \/ \E data \in IdInputs : delete_task(data)

Spec == Init /\ [][Next]_vars

(***************************************************************************)
(* The handlers driven by calls that vary the priority and the status      *)
(***************************************************************************)
priority_Urgent == <<"U", "r", "g", "e", "n", "t">>

PriorityAddInputs ==
    Dicts([title |-> {Text(title_a)},
           priority |-> {Absent, Text(low), Text(high), Text(urgent),
                         Text(priority_Urgent)}])

PriorityListInputs ==
    Dicts([sort_by |-> {Absent, Text(sort_priority)},
           status |-> {Absent, Text(completed)},
           priority |-> {Absent, Text(high)}])

status_done == <<"d", "o", "n", "e">>

PriorityUpdateInputs ==
    Dicts([task_id |-> TaskIds,
           priority |-> {Absent, Text(medium), Text(priority_Urgent)},
           status |-> {Absent, Text(in_progress), Text(status_done)}])

NextPriority ==
    \/ \E data \in PriorityAddInputs : add_task(data)
    \/ \E data \in PriorityListInputs : list_tasks(data)
    \/ \E data \in PriorityUpdateInputs : update_task(data)
    \/ \E data \in IdInputs : complete_task(data)
    \/ \E data \in IdInputs : delete_task(data)

SpecPriority == Init /\ [][NextPriority]_vars

(***************************************************************************)
(* The handlers driven by calls that vary the category                     *)
(***************************************************************************)
category_work == <<"w", "o", "r", "k">>
category_WORK == <<"W", "O", "R", "K">>
category_Work == <<"W", "o", "r", "k">>
category_ok == <<"o", "k">>

CategoryAddInputs ==
    Dicts([title |-> {Text(title_a)},
           category |-> {Absent, Text(<<>>), Text(category_work),
                         Text(category_WORK), Text(Filler(MaxCategoryLen + 1))}])

CategoryFilters ==
    {Text(<<>>), Text(category_work), Text(category_WORK), Text(category_ok)}

CategoryListInputs ==
    Dicts([category |-> {Absent} \cup CategoryFilters,
           status |-> {Absent, Text(completed)}])

CategoryUpdateInputs ==
    Dicts([task_id |-> TaskIds,
           category |-> {Absent, Text(<<>>), Text(category_Work)}])

NextCategory ==
    \/ \E data \in CategoryAddInputs : add_task(data)
    \/ \E data \in CategoryListInputs : list_tasks(data)
    \/ \E data \in CategoryUpdateInputs : update_task(data)
    \/ \E data \in IdInputs : complete_task(data)
    \/ \E data \in IdInputs : delete_task(data)

SpecCategory == Init /\ [][NextCategory]_vars

(***************************************************************************)
(* The handlers driven by calls that add, rename, complete and delete      *)
(* tasks while the clock advances                                          *)
(***************************************************************************)
ClockAddInputs ==
    Dicts([title |-> {Text(title_a), Text(blank), Text(Filler(MaxTitleLen + 1))}])

ClockListInputs == Dicts([sort_by |-> {Absent, Text(sort_created_at)}])

ClockUpdateInputs ==
    Dicts([task_id |-> TaskIds,
           title |-> {Absent, Text(title_a_padded), Text(blank),
                      Text(Filler(MaxTitleLen + 1))}])

NextClock ==
    \/ \E data \in ClockAddInputs : add_task(data)
    \/ \E data \in ClockListInputs : list_tasks(data)
    \/ \E data \in ClockUpdateInputs : update_task(data)
    \/ \E data \in IdInputs : complete_task(data)
    \/ \E data \in IdInputs : delete_task(data)
    \/ Tick

SpecClock == Init /\ [][NextClock]_vars

(***************************************************************************)
(* The handlers driven by calls that set due dates                         *)
(***************************************************************************)
date_leap_day == <<"2", "0", "2", "4", "-", "0", "2", "-", "2", "9">>
date_no_leap_day == <<"2", "0", "2", "5", "-", "0", "2", "-", "2", "9">>
date_month_13 == <<"2", "0", "2", "5", "-", "1", "3", "-", "0", "1">>
date_words == <<"s", "o", "o", "n">>

DueDates ==
    {Text(<<>>), Text(date_padded), Text(date_unpadded), Text(date_feb_30),
     Text(date_leap_day), Text(date_no_leap_day), Text(date_month_13),
     Text(date_words)}

DateAddInputs ==
    Dicts([title |-> {Text(title_a)}, due_date |-> DueDates \cup {Absent}])

DateListInputs == Dicts([sort_by |-> {Absent, Text(sort_due_date)}])

DateUpdateInputs ==
    Dicts([task_id |-> TaskIds, due_date |-> DueDates \cup {Absent}])

NextDate ==
    \/ \E data \in DateAddInputs : add_task(data)
    \/ \E data \in DateListInputs : list_tasks(data)
    \/ \E data \in DateUpdateInputs : update_task(data)
    \/ \E data \in IdInputs : delete_task(data)

SpecDate == Init /\ [][NextDate]_vars

(***************************************************************************)
(* Handlers of two invocations that run at the same time on the store: the *)
(* SELECT of a handler and its UPDATE or DELETE are separate statements,   *)
(* each atomic, and statements of the other invocation may run between     *)
(* them                                                                    *)
(***************************************************************************)
RaceAddInputs == Dicts([title |-> {Text(title_a)}])

RaceUpdateInputs ==
    Dicts([task_id |-> TaskIds, priority |-> {Absent, Text(high)}])

\* the results of the handlers that got past their checks and go on to
\* their write
WritingResults ==
    {"Task marked as completed", "Task updated successfully", "Task deleted"}

\* UPDATE ... WHERE id = ? and DELETE ... WHERE id = ? on the store as it is
\* when the statement runs: no row with that id, no change
WriteStatement(tool_name, conn, data) ==
    CASE tool_name = "delete_task" -> Delete(conn, data.task_id)
      [] tool_name = "complete_task" ->
             IF HasRow(conn, data.task_id)
             THEN SetCompleted(conn, data.task_id) ELSE conn
      [] tool_name = "update_task" ->
             IF HasRow(conn, data.task_id)
             THEN Update(conn, data.task_id, PresentFields(data), data)
             ELSE conn

\* the handler up to its write: the SELECT and the checks on the row it
\* returned. A handler that returns before its write has returned here; the
\* others have their result ready, built from the row they read
Read(p, tool_name, data) ==
    /\ inflight[p] = NoStatement
    /\ \E r \in {Handler(tool_name, Conn, data)} :
          IF r.result.kind \in WritingResults
          THEN /\ inflight' = [inflight EXCEPT ![p] =
                                  [pc |-> "selected", tool |-> tool_name,
                                   input |-> data, result |-> r.result]]
               /\ UNCHANGED <<storeVars, deleteReports>>
          ELSE /\ last' = [tool |-> tool_name, input |-> data,
                           result |-> r.result]
               /\ UNCHANGED <<tasks, seq, now, ever, raceVars>>
    /\ UNCHANGED loopVars

\* the handler from its write on: the statement, the commit and the return
\* of the result
Write(p) ==
    /\ inflight[p] # NoStatement
    /\ \E c \in {WriteStatement(inflight[p].tool, Conn, inflight[p].input)} :
          tasks' = c.tasks
    /\ last' = [tool |-> inflight[p].tool, input |-> inflight[p].input,
                result |-> inflight[p].result]
    /\ deleteReports' =
          IF inflight[p].tool = "delete_task"
          THEN [deleteReports EXCEPT ![RowId(inflight[p].input.task_id)] = @ + 1]
          ELSE deleteReports
    /\ inflight' = [inflight EXCEPT ![p] = NoStatement]
    /\ UNCHANGED <<seq, now, ever, loopVars>>

RaceNext ==
    \/ \E data \in RaceAddInputs : add_task(data)
    \/ \E p \in Invocations, data \in RaceUpdateInputs :
          Read(p, "update_task", data)
    \/ \E p \in Invocations, data \in IdInputs : Read(p, "complete_task", data)
    \/ \E p \in Invocations, data \in IdInputs : Read(p, "delete_task", data)
    \/ \E p \in Invocations : Write(p)

RaceSpec == Init /\ [][RaceNext]_vars

(***************************************************************************)
(* The command loops: agent.process_user_input and app.process_command     *)
(***************************************************************************)
\* validate_due_date: the text itself, or InputError
validate_due_date(due_date) ==
    IF ~Truthy(due_date) THEN [ok |-> TRUE, text |-> due_date]
    ELSE IF ~strptime(due_date.s) THEN [ok |-> FALSE, text |-> due_date]
    ELSE [ok |-> TRUE, text |-> due_date]

\* validate_user_input: the stripped text, or InputError
validate_user_input(text) ==
    IF ~Truthy(text) \/ strip(text.s) = <<>>
    THEN [ok |-> FALSE, text |-> text]
    ELSE IF Len(strip(text.s)) > MAX_INPUT_LENGTH
    THEN [ok |-> FALSE, text |-> text]
    ELSE [ok |-> TRUE, text |-> Text(strip(text.s))]

\* _require_api_key: TRUE when the client is or becomes initialised, FALSE
\* when it raises ConfigError
require_api_key_ok == client \/ api_key

\* a cap tested one round too late
RoundCapOffByOne(v) == MAX_TOOL_ROUNDS + 1

\* the round cap of each loop
RoundCap(v) == IF v = "repl" THEN MAX_TOOL_ROUNDS ELSE max_rounds

\* content blocks of a response
ToolUse(id, name, input) ==
    [type |-> "tool_use", id |-> id, name |-> name, input |-> input]
TextBlock == [type |-> "text", text |-> <<"o", "k">>]

\* the tool requests explored in the first MaxVariedRounds rounds
VariedToolRequests ==
    { <<ToolUse("tu1", "add_task", [title |-> Text(title_a)])>>,
      <<ToolUse("tu1", "add_task", [title |-> Text(title_a_padded)]),
        ToolUse("tu2", "complete_task", [task_id |-> IntVal(1)])>>,
      <<ToolUse("tu1", "delete_task", [task_id |-> IntVal(2)]),
        ToolUse("tu2", "update_task", [task_id |-> IntVal(1),
                                       priority |-> Text(priority_Urgent)])>>,
      <<TextBlock, ToolUse("tu1", "list_tasks", <<>>)>>,
      <<ToolUse("tu1", "search_tasks", <<>>)>>,
      <<TextBlock>> }

\* the tool request explored in the later rounds: a name outside the catalog
LaterToolRequests == { <<ToolUse("tu1", "search_tasks", <<>>)>> }

ToolRequests(round) ==
    IF round <= MaxVariedRounds THEN VariedToolRequests ELSE LaterToolRequests

\* what client.messages.create may do in a round: return a final answer
\* with or without a text block, return a tool request, or raise
Responses(round) ==
    {[stop_reason |-> "end_turn", content |-> c] : c \in {<<TextBlock>>, <<>>}}
    \cup {[stop_reason |-> "tool_use", content |-> c] : c \in ToolRequests(round)}

Failures ==
    {"AuthenticationError", "RateLimitError", "APIConnectionError",
     "APIStatusError", "Exception"}

\* a loop that reports every failed LLM call as an APIError
ClassifyAllAPIError(exc) == "APIError"

\* the exception the loop raises for a failed LLM call
Classify(exc) ==
    IF exc = "AuthenticationError" THEN "ConfigError" ELSE "APIError"

\* the add_task calls among the blocks
RECURSIVE AddCount(_)
AddCount(blocks) ==
    IF blocks = <<>> THEN 0
    ELSE (IF Head(blocks).type = "tool_use" /\ Head(blocks).name = "add_task"
          THEN 1 ELSE 0) + AddCount(Tail(blocks))

\* the dispatcher each loop calls
Dispatch(v, conn, block) ==
    IF v = "repl"
    THEN execute_tool(conn, block.name, block.input)
    ELSE app_execute_tool(conn, block.name, block.input, user_id)

\* for block in response.content: if block.type == "tool_use": execute it
\* and append its tool_result; an exception leaves the loop at once
RECURSIVE RunBlocks(_, _, _, _)
RunBlocks(v, conn, blocks, tool_results) ==
    IF blocks = <<>>
    THEN [conn |-> conn, tool_results |-> tool_results, raised |-> "none"]
    ELSE IF Head(blocks).type # "tool_use"
    THEN RunBlocks(v, conn, Tail(blocks), tool_results)
    ELSE LET r == Dispatch(v, conn, Head(blocks))
         IN  IF r.raised
             THEN [conn |-> r.conn, tool_results |-> tool_results,
                   raised |-> r.result.kind]
             ELSE RunBlocks(v, r.conn, Tail(blocks),
                            Append(tool_results,
                                   [type |-> "tool_result",
                                    tool_use_id |-> Head(blocks).id,
                                    content |-> r.result]))

\* the first block that has a text, if any
TextBlocks(content) == SelectSeq(content, LAMBDA b : b.type = "text")

Raised(exception) == [kind |-> "raised", value |-> exception]
Returned(text) == [kind |-> "returned", value |-> text]
Fallback == <<"I'm not sure how to help with that.">>

\* get_db(): sqlite3.connect opens a connection for the invocation
get_db(conns) == conns \cup {"invocation"}

\* a finally clause that closes nothing
CloseNothing(conns) == conns

\* finally: conn.close()
Close(conns) == conns \ {"invocation"}

\* the invocation is left, by return or by an exception, with the
\* connections conns open: its locals `messages` and `response` are gone
\* with it
Exit(result, conns) ==
    /\ pc' = "idle"
    /\ outcome' = result
    /\ messages' = <<>>
    /\ response' = <<>>
    /\ user_id' = None
    /\ connections' = conns

\* the loop is left: process_command runs its finally clause,
\* process_user_input has none
End(result) ==
    Exit(result, IF variant = "web" THEN Close(connections) ELSE connections)

\* current_user.id of the users who send commands to the web loop
Users == {IntVal(1), IntVal(2)}

\* texts the user may send
UserMessages ==
    {Text(title_a_padded), Text(blank), Text(<<>>),
     Text(Filler(MAX_INPUT_LENGTH + 1))}

\* process_user_input(conn, user_message) up to the loop: validate, then
\* ensure the client
StartRepl(user_message) ==
    /\ UNCHANGED raceVars
    /\ pc = "idle"
    /\ variant' = "repl"
    /\ rounds' = 0
    /\ llmCalls' = 0
    /\ command' = user_message
    /\ failure' = "none"
    /\ UNCHANGED <<storeVars, api_key>>
    /\ \E v \in {validate_user_input(user_message)} :
           IF ~v.ok
           THEN /\ Exit(Raised("InputError"), connections)
                /\ UNCHANGED client
           ELSE IF ~require_api_key_ok
           THEN /\ Exit(Raised("ConfigError"), connections)
                /\ UNCHANGED client
           ELSE /\ client' = TRUE
                /\ messages' = <<[role |-> "user", content |-> v.text]>>
                /\ response' = <<>>
                /\ pc' = "round"
                /\ outcome' = NoOutcome
                /\ user_id' = None
                /\ UNCHANGED connections

\* process_command(user_message, user_id) up to the loop: ensure the
\* client, open the connection, then validate
StartWeb(user_message, user) ==
    /\ UNCHANGED raceVars
    /\ pc = "idle"
    /\ variant' = "web"
    /\ rounds' = 0
    /\ llmCalls' = 0
    /\ command' = user_message
    /\ failure' = "none"
    /\ UNCHANGED <<storeVars, api_key>>
    /\ \E v \in {validate_user_input(user_message)} :
           IF ~require_api_key_ok
           THEN /\ Exit(Raised("ConfigError"), connections)
                /\ UNCHANGED client
           ELSE IF ~v.ok
           THEN /\ Exit(Raised("InputError"), Close(get_db(connections)))
                /\ client' = TRUE
           ELSE /\ client' = TRUE
                /\ messages' = <<[role |-> "user", content |-> v.text]>>
                /\ response' = <<>>
                /\ pc' = "round"
                /\ outcome' = NoOutcome
                /\ user_id' = user
                /\ connections' = get_db(connections)

\* the top of `while True`: count the round and stop at the cap
BeginRound ==
    /\ UNCHANGED raceVars
    /\ pc = "round"
    /\ rounds' = rounds + 1
    /\ IF rounds + 1 > RoundCap(variant)
       THEN End(Raised("APIError"))
       ELSE /\ pc' = "call"
            /\ UNCHANGED <<outcome, response, messages, user_id, connections>>
    /\ UNCHANGED <<storeVars, variant, llmCalls, api_key, client, command,
                   failure>>

\* client.messages.create returns a response
LLMReturns ==
    /\ UNCHANGED raceVars
    /\ pc = "call"
    /\ llmCalls' = llmCalls + 1
    /\ \E r \in Responses(rounds) :
          /\ seq + AddCount(r.content) <= MaxTasks
          /\ response' = r
    /\ pc' = "respond"
    /\ UNCHANGED <<storeVars, variant, rounds, messages, outcome, api_key,
                   client, user_id, command, failure, connections>>

\* client.messages.create raises: the except clauses re-raise
LLMFails ==
    /\ UNCHANGED raceVars
    /\ pc = "call"
    /\ llmCalls' = llmCalls + 1
    /\ \E f \in Failures :
          /\ failure' = f
          /\ End(Raised(Classify(f)))
    /\ UNCHANGED <<storeVars, variant, rounds, api_key, client, command>>

\* stop_reason == "tool_use": run every tool_use block, then append the
\* request turn and the turn of the results
RunTools ==
    /\ UNCHANGED raceVars
    /\ pc = "respond"
    /\ response.stop_reason = "tool_use"
    /\ \E r \in {RunBlocks(variant, Conn, response.content, <<>>)} :
          /\ tasks' = r.conn.tasks
          /\ seq' = r.conn.seq
          /\ ever' = ever \cup DOMAIN r.conn.tasks
          /\ IF r.raised # "none"
             THEN End(Raised(r.raised))
             ELSE /\ messages' = messages \o
                        <<[role |-> "assistant", content |-> response.content],
                          [role |-> "user", content |-> r.tool_results]>>
                  /\ pc' = "round"
                  /\ UNCHANGED <<outcome, response, user_id, connections>>
    /\ UNCHANGED <<now, last, variant, rounds, llmCalls, api_key, client,
                   command, failure>>

\* any other stop_reason: return the first text, or the fallback text
FinalAnswer ==
    /\ UNCHANGED raceVars
    /\ pc = "respond"
    /\ response.stop_reason # "tool_use"
    /\ IF TextBlocks(response.content) # <<>>
       THEN End(Returned(Head(TextBlocks(response.content)).text))
       ELSE End(Returned(Fallback))
    /\ UNCHANGED <<storeVars, variant, rounds, llmCalls, api_key, client,
                   command, failure>>

LoopInit ==
    /\ tasks = init_db.tasks
    /\ seq = init_db.seq
    /\ now = 0
    /\ last = NoCall
    /\ ever = {}
    /\ variant = "repl"
    /\ pc = "idle"
    /\ rounds = 0
    /\ llmCalls = 0
    /\ response = <<>>
    /\ messages = <<>>
    /\ outcome = NoOutcome
    /\ api_key \in BOOLEAN
    /\ client = api_key
    /\ user_id = None
    /\ command = None
    /\ failure = "none"
    /\ connections = {"main"}
    /\ inflight = [p \in Invocations |-> NoStatement]
    /\ deleteReports = [i \in 1..MaxTasks |-> 0]

LoopNext ==
    \/ \E m \in UserMessages : StartRepl(m)
    \/ \E m \in UserMessages, u \in Users : StartWeb(m, u)
    \/ BeginRound
    \/ LLMReturns
    \/ LLMFails
    \/ RunTools
    \/ FinalAnswer

LoopSpec == LoopInit /\ [][LoopNext]_vars

\* a step of the invocation in progress
LoopStep == BeginRound \/ LLMReturns \/ LLMFails \/ RunTools \/ FinalAnswer

\* an invocation is one sequential thread: its next step is taken
\* eventually, the loop waits on nothing but the LLM call, which returns or
\* raises
FairLoopSpec == LoopSpec /\ WF_vars(LoopStep)

(***************************************************************************)
(* Properties of the command loops                                         *)
(***************************************************************************)
\* C1: one invocation of the command loop counts its rounds one by one,
\* calls the LLM at most 10 times (the k-th call in round k), and always
\* ends, by a reply or by an error; once the round counter passes 10 the
\* invocation has ended with APIError after exactly 10 calls.
C1_LoopIsBounded ==
    /\ [](llmCalls <= 10)
    /\ [][rounds' # rounds => (rounds' = rounds + 1 \/ rounds' = 0)]_vars
    /\ [][llmCalls' # llmCalls =>
            (llmCalls' = 0 \/ (llmCalls' = llmCalls + 1 /\ llmCalls' = rounds))]_vars
    /\ [](rounds > 10 =>
            pc = "idle" /\ outcome = Raised("APIError") /\ llmCalls = 10)
    /\ [](pc = "idle" => outcome.kind \in {"none", "returned", "raised"})
    /\ (pc # "idle") ~> (pc = "idle")

\* an invocation in which the LLM requested tools in each of the 10 rounds
C1_Witness ==
    /\ pc = "idle"
    /\ rounds = 11
    /\ llmCalls = 10
    /\ outcome = Raised("APIError")

\* C2: in both command loops every tool request is answered by result
\* texts, never by an exception: after the tools of a response have run,
\* the loop is at the top of its next round.
C2_ToolCallsNeverRaise ==
    [][(pc = "respond" /\ response.stop_reason = "tool_use") => pc' = "round"]_vars

(***************************************************************************)
(* Properties of the tool handlers                                         *)
(***************************************************************************)
\* the call `last` with a task_id that names a row of the table before it
NamesRow(call, t) ==
    /\ "task_id" \in DOMAIN call.input
    /\ RowId(call.input.task_id) \in DOMAIN t

\* C3: complete_task on a task whose status is completed returns the
\* 'already completed' message and changes no row; completing any task
\* twice leaves the store that completing it once leaves, and the second
\* call answers 'already completed'.
C3_CompleteIsIdempotent ==
    /\ [][(/\ last'.tool = "complete_task"
           /\ NamesRow(last', tasks)
           /\ tasks[RowId(last'.input.task_id)].status = Text(completed))
          => (/\ last'.result = [kind |-> "Task is already completed",
                                 id |-> last'.input.task_id]
              /\ tasks' = tasks
              /\ seq' = seq)]_vars
    /\ [](\A d \in IdInputs :
            LET once == handle_complete_task(Conn, d)
                twice == handle_complete_task(once.conn, d)
            IN  /\ twice.conn = once.conn
                /\ NamesRow([input |-> d], tasks) =>
                      twice.result.kind = "Task is already completed")

\* complete_task has answered 'already completed' in a store of two tasks
C3_Witness ==
    /\ last.tool = "complete_task"
    /\ last.result.kind = "Task is already completed"
    /\ Cardinality(DOMAIN tasks) >= 2

\* C4: delete_task, complete_task and update_task called with a task id
\* that names no row return 'No task found with ID {id}.' and leave the
\* store as it was, also when the store is empty.
C4_MissingIdIsReported ==
    [][(/\ last'.tool \in {"delete_task", "complete_task", "update_task"}
        /\ "task_id" \in DOMAIN last'.input
        /\ ~NamesRow(last', tasks))
       => (/\ last'.result = [kind |-> "No task found with ID",
                              id |-> last'.input.task_id]
           /\ tasks' = tasks
           /\ seq' = seq)]_vars

\* delete_task has reported a missing id on the empty store
C4_Witness ==
    /\ last.tool = "delete_task"
    /\ last.result.kind = "No task found with ID"
    /\ tasks = <<>>
    /\ seq > 0

\* the latest call was add_task with a title and a due date and nothing
\* else, the due date was given (not empty), and the task was added
AddedWithTitleAndDate ==
    /\ last.tool = "add_task"
    /\ last.result.kind = "Task added"
    /\ DOMAIN last.input = {"title", "due_date"}
    /\ Truthy(last.input.due_date)

\* the lines of the unfiltered listing of the current store
UnfilteredLines ==
    LET r == handle_list_tasks(Conn, <<>>).result
    IN  IF r.kind = "Found" THEN r.lines ELSE <<>>

\* the unfiltered listing has exactly one line for id, and it has these
\* fields
ListsRow(id, title, due, status, priority) ==
    /\ Cardinality({k \in 1..Len(UnfilteredLines) : UnfilteredLines[k].id = id}) = 1
    /\ \E k \in 1..Len(UnfilteredLines) :
          /\ UnfilteredLines[k].id = id
          /\ UnfilteredLines[k].title = title
          /\ UnfilteredLines[k].due = due
          /\ UnfilteredLines[k].status = status
          /\ UnfilteredLines[k].priority = priority

\* C6 as stated: after add_task(title=T, due_date=D) the unfiltered listing
\* has a row for the new id with title T, due date D, status pending and
\* priority medium.
C6_RoundTripVerbatim ==
    AddedWithTitleAndDate =>
        ListsRow(last.result.id, last.input.title, last.input.due_date,
                 Text(pending), Text(medium))

\* C6 as amended: the row's title is T without its leading and trailing
\* whitespace; due date D, status pending and priority medium as stated.
C6_RoundTripStripped ==
    AddedWithTitleAndDate =>
        ListsRow(last.result.id, Text(strip(last.input.title.s)),
                 last.input.due_date, Text(pending), Text(medium))

\* a task was added with a padded title and a due date to a store that
\* already held a task
C6_Witness ==
    /\ AddedWithTitleAndDate
    /\ last.input.title = Text(title_a_padded)
    /\ Cardinality(DOMAIN tasks) >= 2

\* the calendar day a due date names, as <<year, month, day>>
DayOf(s) ==
    LET d1 == CHOOSE i \in Dashes(s) : \A j \in Dashes(s) : i <= j
        d2 == CHOOSE i \in Dashes(s) : \A j \in Dashes(s) : j <= i
    IN  <<Number(SubSeq(s, 1, d1 - 1)), Number(SubSeq(s, d1 + 1, d2 - 1)),
          Number(lstrip(SubSeq(s, d2 + 1, Len(s))))>>

NotAfter(a, b) ==
    \/ a[1] < b[1]
    \/ a[1] = b[1] /\ a[2] < b[2]
    \/ a[1] = b[1] /\ a[2] = b[2] /\ a[3] <= b[3]

\* the lines of the listing sorted by due date
LinesByDueDate ==
    LET r == handle_list_tasks(Conn, [sort_by |-> Text(sort_due_date)]).result
    IN  IF r.kind = "Found" THEN r.lines ELSE <<>>

\* C7: list_tasks with sort_by=due_date lists every task without a due
\* date (no '| due:' suffix) after all tasks that have one, and the tasks
\* that have one in ascending order of their dates.
C7_UndatedTasksLast ==
    \A k, m \in 1..Len(LinesByDueDate) :
        k < m =>
            /\ ~(LinesByDueDate[k].due = NoSuffix /\ LinesByDueDate[m].due # NoSuffix)
            /\ (LinesByDueDate[k].due # NoSuffix /\ LinesByDueDate[m].due # NoSuffix)
                  => NotAfter(DayOf(LinesByDueDate[k].due.s),
                              DayOf(LinesByDueDate[m].due.s))

\* the connection on a given table
ConnOn(t, q, n) == [tasks |-> t, seq |-> q, now |-> n]

\* the lines list_tasks(data) returns on a connection
LinesOf(conn, data) ==
    LET r == handle_list_tasks(conn, data).result
    IN  IF r.kind = "Found" THEN r.lines ELSE <<>>

\* the ids of the lines
IdsOf(lines) == {lines[k].id : k \in 1..Len(lines)}

\* C5: update_task with category="" on an existing task, whatever its
\* category, succeeds and leaves the task without a category: the column
\* is NULL, the task's line in a listing has no '| category:' suffix, and
\* no category filter returns the task.
C5_EmptyCategoryClears ==
    [][(/\ last'.tool = "update_task"
        /\ NamesRow(last', tasks)
        /\ DOMAIN last'.input = {"task_id", "category"}
        /\ last'.input.category = Text(<<>>))
       => LET id == RowId(last'.input.task_id)
              after == ConnOn(tasks', seq', now')
          IN  /\ last'.result.kind = "Task updated successfully"
              /\ tasks'[id].category = None
              /\ \E k \in 1..Len(LinesOf(after, <<>>)) :
                    /\ LinesOf(after, <<>>)[k].id = id
                    /\ LinesOf(after, <<>>)[k].category = NoSuffix
              /\ \A c \in CategoryFilters :
                    id \notin IdsOf(LinesOf(after, [category |-> c]))]_vars

\* update_task has cleared a category in a store where another task keeps
\* its category
C5_Witness ==
    /\ last.tool = "update_task"
    /\ last.result.kind = "Task updated successfully"
    /\ "category" \in DOMAIN last.input
    /\ last.input.category = Text(<<>>)
    /\ \E i \in DOMAIN tasks : Truthy(tasks[i].category)

\* the place of a priority in the order urgent, high, medium, low
PlaceOf(p) ==
    IF p = Text(urgent) THEN 1
    ELSE IF p = Text(high) THEN 2
    ELSE IF p = Text(medium) THEN 3
    ELSE IF p = Text(low) THEN 4
    ELSE 0

\* no line stands before a line of a higher priority; equal priorities
\* stand by ascending id
InPriorityOrder(lines) ==
    \A k, m \in 1..Len(lines) :
        k < m =>
            \/ PlaceOf(lines[k].priority) < PlaceOf(lines[m].priority)
            \/ /\ PlaceOf(lines[k].priority) = PlaceOf(lines[m].priority)
               /\ lines[k].id < lines[m].id

\* C8: list_tasks with sort_by=priority returns all tasks, urgent first,
\* then high, then medium, then low, equal priorities by ascending id;
\* the same order holds under a filter.
C8_PriorityOrder ==
    /\ IdsOf(LinesOf(Conn, [sort_by |-> Text(sort_priority)])) = DOMAIN tasks
    /\ Len(LinesOf(Conn, [sort_by |-> Text(sort_priority)])) = Cardinality(DOMAIN tasks)
    /\ \A i \in DOMAIN tasks : PlaceOf(tasks[i].priority) # 0
    /\ \A d \in PriorityListInputs :
          Get(d, "sort_by", None) = Text(sort_priority) =>
              InPriorityOrder(LinesOf(Conn, d))
    /\ (last.tool = "list_tasks"
        /\ Get(last.input, "sort_by", None) = Text(sort_priority)
        /\ last.result.kind = "Found") => InPriorityOrder(last.result.lines)

\* list_tasks sorted by priority has listed a later task before an earlier
\* one
C8_Witness ==
    /\ last.tool = "list_tasks"
    /\ last.input = [sort_by |-> Text(sort_priority)]
    /\ last.result.kind = "Found"
    /\ Len(last.result.lines) >= 2
    /\ last.result.lines[1].id > last.result.lines[2].id

\* pairs of a letter and its other case
CasePairs ==
    {<<"k", "K">>, <<"K", "k">>, <<"o", "O">>, <<"O", "o">>,
     <<"r", "R">>, <<"R", "r">>, <<"w", "W">>, <<"W", "w">>}

SameIgnoringCase(a, b) ==
    /\ Len(a) = Len(b)
    /\ \A i \in 1..Len(a) : a[i] = b[i] \/ <<a[i], b[i]>> \in CasePairs

\* C9: list_tasks(category=C) returns exactly the tasks that have a
\* category equal to C ignoring letter case and that satisfy the other
\* filters given; a task without a category is never returned.
C9_CategoryFilterIgnoresCase ==
    (last.tool = "list_tasks" /\ "category" \in DOMAIN last.input)
    => /\ last.result.kind \in {"Found", "No tasks found."}
       /\ IdsOf(IF last.result.kind = "Found" THEN last.result.lines ELSE <<>>)
          = {i \in DOMAIN tasks :
               /\ ~IsNone(tasks[i].category)
               /\ SameIgnoringCase(tasks[i].category.s, last.input.category.s)
               /\ "status" \in DOMAIN last.input =>
                     tasks[i].status = last.input.status}

\* the filter WORK has returned a task stored with category work, and not
\* the task without a category
C9_Witness ==
    /\ last.tool = "list_tasks"
    /\ "category" \in DOMAIN last.input
    /\ last.input.category = Text(category_WORK)
    /\ last.result.kind = "Found"
    /\ \E i \in IdsOf(last.result.lines) : tasks[i].category = Text(category_work)
    /\ \E i \in DOMAIN tasks : IsNone(tasks[i].category)

\* C10: every successful add_task (a step that records a new call in
\* `last`) returns an id that no task had before, deleted tasks included;
\* rows appear only by add_task and disappear only by delete_task, and no
\* step changes the created_at of a row.
C10_IdsAreNeverReused ==
    /\ [][(last' # last /\ last'.tool = "add_task"
           /\ last'.result.kind = "Task added")
          => (/\ last'.result.id \notin ever
              /\ DOMAIN tasks' = DOMAIN tasks \cup {last'.result.id})]_vars
    /\ [][(last' = last \/ last'.tool # "add_task"
           \/ last'.result.kind # "Task added")
          => DOMAIN tasks' \subseteq DOMAIN tasks]_vars
    /\ [][DOMAIN tasks' # DOMAIN tasks /\ DOMAIN tasks' \subseteq DOMAIN tasks
          => (/\ last'.tool = "delete_task"
              /\ DOMAIN tasks' = DOMAIN tasks \ {RowId(last'.input.task_id)})]_vars
    /\ [][\A i \in DOMAIN tasks \cap DOMAIN tasks' :
            tasks'[i].created_at = tasks[i].created_at]_vars

\* add_task has succeeded after the first task was deleted and the clock
\* had advanced
C10_Witness ==
    /\ last.tool = "add_task"
    /\ last.result.kind = "Task added"
    /\ Cardinality(ever) > Cardinality(DOMAIN tasks)
    /\ last.result.id = 2
    /\ 1 \notin DOMAIN tasks
    /\ now > 0


(***************************************************************************)
(* Invariants of the stored fields                                         *)
(***************************************************************************)
\* C11: in every store the handlers reach, whatever priority and status
\* arguments they are given, every task's priority is one of low, medium,
\* high, urgent and every task's status is one of pending, in_progress,
\* completed.
C11_PriorityAndStatusEnumerated ==
    \A i \in DOMAIN tasks :
        /\ tasks[i].priority \in VALID_PRIORITIES
        /\ tasks[i].status \in VALID_STATUSES

\* update_task has refused a status outside the three, on a task that an
\* earlier update had put in progress
C11_Witness ==
    /\ last.tool = "update_task"
    /\ last.result.kind = "Error: invalid status"
    /\ "task_id" \in DOMAIN last.input
    /\ RowId(last.input.task_id) \in DOMAIN tasks
    /\ tasks[RowId(last.input.task_id)].status = Text(in_progress)


\* C12: in every store add_task and update_task reach, every task's
\* category is absent (NULL) or a lowercase text of at most 50 characters.
C12_CategoryLowercaseAndShort ==
    \A i \in DOMAIN tasks :
        \/ IsNone(tasks[i].category)
        \/ /\ IsText(tasks[i].category)
           /\ lower(tasks[i].category.s) = tasks[i].category.s
           /\ Len(tasks[i].category.s) <= MaxCategoryLen


\* a title that add_task refuses
AddRejectsTitle(title) ==
    handle_add_task(Conn, [title |-> title]).result.kind # "Task added"

\* C13: in every store add_task and update_task reach, every task's title
\* is a non-empty text of at most 200 characters, and update_task refuses,
\* on every existing task, each title that add_task refuses.
C13_TitlesValid ==
    /\ \A i \in DOMAIN tasks :
          /\ IsText(tasks[i].title)
          /\ tasks[i].title.s # <<>>
          /\ Len(tasks[i].title.s) <= MaxTitleLen
    /\ \A d \in ClockUpdateInputs :
          ("title" \in DOMAIN d /\ HasRow(Conn, d.task_id)
           /\ AddRejectsTitle(d.title))
          => handle_update_task(Conn, d).result.kind # "Task updated successfully"


(***************************************************************************)
(* Properties of the web loop's users                                      *)
(***************************************************************************)
\* the owner of a row: its user_id column, None for a row of a table that
\* has no such column
Owner(row) == IF "user_id" \in DOMAIN row THEN row.user_id ELSE None

InvalidMessage(m) ==
    \/ ~IsText(m)
    \/ strip(m.s) = <<>>
    \/ Len(strip(m.s)) > MAX_INPUT_LENGTH

\* C15: an invocation of either loop given an empty, whitespace-only or
\* over-long message ends at once with InputError, whether or not a
\* credential is configured, without initialising the client, without an
\* LLM call and with the store as it was.
C15_ValidationComesFirst ==
    [][(pc = "idle" /\ InvalidMessage(command'))
       => /\ pc' = "idle"
          /\ outcome' = Raised("InputError")
          /\ llmCalls' = 0
          /\ client' = client
          /\ tasks' = tasks
          /\ seq' = seq]_vars


C17_EveryInvocationOwnsItsConnection ==
    /\ [](pc # "idle" => "invocation" \in connections)
    /\ [](pc = "idle" => "invocation" \notin connections)

\* C17, amended: an invocation of the web loop that gets past the credential
\* check opens a connection of its own, holds it while it runs and has
\* closed it when it ends, on every exit path; an invocation of the REPL
\* loop opens none and works on the connection main opened, which stays
\* open; no connection an invocation opened is open after it has ended.
C17_WebInvocationOwnsItsConnection ==
    /\ [][(pc = "idle" /\ pc' # "idle" /\ variant' = "web")
          => /\ "invocation" \notin connections
             /\ connections' = connections \cup {"invocation"}]_vars
    /\ []((pc # "idle" /\ variant = "web") => "invocation" \in connections)
    /\ []((pc # "idle" /\ variant = "repl") => connections = {"main"})
    /\ [](pc = "idle" => connections = {"main"})

\* a web invocation left by the exception of a tool call, its connection
\* closed
C17_Witness ==
    /\ pc = "idle"
    /\ variant = "web"
    /\ outcome = Raised("TypeError")
    /\ rounds = 2
    /\ connections = {"main"}


(***************************************************************************)
(* Properties of due-date validation                                       *)
(***************************************************************************)
\* a text of the shape YYYY-MM-DD: ten characters, digits but for the two
\* dashes
IsoForm(s) ==
    /\ Len(s) = 10
    /\ s[5] = "-"
    /\ s[8] = "-"
    /\ \A i \in (1..10) \ {5, 8} : s[i] \in Digits

\* a text of that shape that names a day of the calendar
ExistingDate(s) ==
    LET y == Number(SubSeq(s, 1, 4))
        m == Number(SubSeq(s, 6, 7))
        d == Number(SubSeq(s, 9, 10))
    IN  /\ y >= 1
        /\ m \in 1..12
        /\ d \in 1..DaysInMonth(y, m)

\* a non-empty text that is not three numbers separated by two dashes
NoDate(s) ==
    /\ s # <<>>
    /\ \/ Cardinality({i \in 1..Len(s) : s[i] = "-"}) # 2
       \/ \E i \in 1..Len(s) : s[i] \notin Digits \cup {"-", " "}

\* the step is an add_task, or an update_task of an existing task, whose
\* arguments carry a text as due date
SetsDueDate ==
    /\ last' # last
    /\ \/ last'.tool = "add_task"
       \/ last'.tool = "update_task" /\ NamesRow(last', tasks)
    /\ "due_date" \in DOMAIN last'.input
    /\ IsText(last'.input.due_date)

\* validate_due_date and the handler of the step both take the due date
DueDateAccepted ==
    /\ validate_due_date(last'.input.due_date).ok
    /\ last'.result.kind \in {"Task added", "Task updated successfully"}
    /\ \E id \in {IF last'.tool = "add_task" THEN last'.result.id
                  ELSE RowId(last'.input.task_id)} :
          tasks'[id].due_date = last'.input.due_date

\* validate_due_date and the handler of the step both refuse the due date,
\* and the store is as it was
DueDateRejected ==
    /\ ~validate_due_date(last'.input.due_date).ok
    /\ last'.result.kind = "Error: invalid due date format"
    /\ tasks' = tasks

\* C18 as stated: validate_due_date, add_task and update_task accept every
\* due date of the shape YYYY-MM-DD, whether or not the day exists, and
\* refuse every non-empty text that is not of that shape.
C18_FormatOnly ==
    [][SetsDueDate
       => /\ IsoForm(last'.input.due_date.s) => DueDateAccepted
          /\ NoDate(last'.input.due_date.s) => DueDateRejected]_vars

\* C18, amended: validate_due_date, add_task and update_task accept a due
\* date of the shape YYYY-MM-DD exactly when it names a day that exists, so
\* they refuse "2026-02-30"; they refuse every text that is not three
\* numbers separated by two dashes, and take an empty due date unchecked.
C18_FormatAndCalendar ==
    [][SetsDueDate
       => /\ IsoForm(last'.input.due_date.s)
             => IF ExistingDate(last'.input.due_date.s)
                THEN DueDateAccepted ELSE DueDateRejected
          /\ NoDate(last'.input.due_date.s) => DueDateRejected
          /\ last'.input.due_date.s = <<>> => DueDateAccepted]_vars

\* update_task has refused "2026-02-30" for a task whose due date is the
\* leap day "2024-02-29"
C18_Witness ==
    /\ last.tool = "update_task"
    /\ "due_date" \in DOMAIN last.input
    /\ last.input.due_date = Text(date_feb_30)
    /\ last.result.kind = "Error: invalid due date format"
    /\ NamesRow(last, tasks)
    /\ tasks[RowId(last.input.task_id)].due_date = Text(date_leap_day)


(***************************************************************************)
(* Properties of the conversation                                          *)
(***************************************************************************)
\* the tool_use blocks of a response, in response order
ToolUseBlocks(content) == SelectSeq(content, LAMBDA b : b.type = "tool_use")

\* C19: in both loops a response that requests tools is answered by running
\* each of its tool_use blocks once, in order, and the conversation grows by
\* the request turn and one user turn that holds one result per block,
\* carrying the block's id; the conversation starts as the user message
\* alone, has 1 + 2k turns after k tool rounds, alternating user and
\* assistant, and is gone when the invocation has ended.
C19_ConversationGrowsByTwoTurns ==
    /\ [][(pc = "respond" /\ response.stop_reason = "tool_use")
          => /\ pc' = "round"
             /\ Len(messages') = Len(messages) + 2
             /\ SubSeq(messages', 1, Len(messages)) = messages
             /\ messages'[Len(messages) + 1] =
                   [role |-> "assistant", content |-> response.content]
             /\ messages'[Len(messages) + 2].role = "user"
             /\ \E results \in {messages'[Len(messages) + 2].content} :
                   /\ Len(results) = Len(ToolUseBlocks(response.content))
                   /\ \A k \in 1..Len(results) :
                         /\ results[k].type = "tool_result"
                         /\ results[k].tool_use_id =
                               ToolUseBlocks(response.content)[k].id
             /\ Cardinality(DOMAIN tasks' \ DOMAIN tasks) =
                   AddCount(response.content)]_vars
    /\ [][(pc = "idle" /\ pc' # "idle")
          => /\ Len(messages') = 1
             /\ messages'[1].role = "user"
             /\ messages'[1].content = Text(strip(command'.s))]_vars
    /\ [](pc = "round" => Len(messages) = 1 + 2 * rounds)
    /\ [](pc \in {"call", "respond"} => Len(messages) = 2 * rounds - 1)
    /\ [](\A i \in 1..Len(messages) :
             messages[i].role = IF i % 2 = 1 THEN "user" ELSE "assistant")
    /\ [](pc = "idle" => messages = <<>>)


(***************************************************************************)
(* Properties of update_task's effect                                      *)
(***************************************************************************)
\* update_task arguments that name one to three fields, or none
FrameUpdateInputs ==
    Dicts([task_id |-> TaskIds,
           title |-> {Absent, Text(title_a_padded)},
           priority |-> {Absent, Text(high)},
           category |-> {Absent, Text(<<>>), Text(category_Work)}])

\* the value the arguments give for a field
GivenValue(data, field) ==
    IF field = "category" /\ data[field] = Text(<<>>) THEN None ELSE data[field]

\* the table `after` is the table `before` with the fields of task id that
\* data names set to the values data gives, and nothing else changed
OnlyGivenFieldsChanged(before, after, id, data) ==
    /\ DOMAIN after = DOMAIN before
    /\ \A i \in DOMAIN before \ {id} : after[i] = before[i]
    /\ DOMAIN after[id] = DOMAIN before[id]
    /\ \A f \in DOMAIN before[id] :
          after[id][f] = IF f \in DOMAIN data \ {"task_id"}
                         THEN GivenValue(data, f) ELSE before[id][f]

\* C20: update_task on an existing task, with valid values, sets the fields
\* its arguments name to the given values (an empty category to NULL) and
\* changes no other field and no other task; with task_id alone it answers
\* 'No fields to update.' and changes nothing. Stated of every call the
\* store can receive and of every call it has received.
C20_UpdateChangesOnlyGivenFields ==
    /\ [](\A d \in FrameUpdateInputs :
             HasRow(Conn, d.task_id)
             => \E r \in {handle_update_task(Conn, d)} :
                   IF DOMAIN d = {"task_id"}
                   THEN /\ r.result.kind = "No fields to update."
                        /\ r.conn = Conn
                   ELSE /\ r.result.kind = "Task updated successfully"
                        /\ r.conn.seq = seq
                        /\ OnlyGivenFieldsChanged(tasks, r.conn.tasks,
                                                  RowId(d.task_id), d))
    /\ [][(last' # last /\ last'.tool = "update_task")
          => /\ seq' = seq
             /\ IF last'.result.kind = "Task updated successfully"
                THEN OnlyGivenFieldsChanged(tasks, tasks',
                                            RowId(last'.input.task_id),
                                            last'.input)
                ELSE tasks' = tasks
             /\ (DOMAIN last'.input = {"task_id"} /\ NamesRow(last', tasks))
                => last'.result.kind = "No fields to update."]_vars

\* update_task has cleared the category of one of two tasks; the other
\* task has its category still
C20_Witness ==
    /\ last.tool = "update_task"
    /\ last.result.kind = "Task updated successfully"
    /\ DOMAIN last.input = {"task_id", "category"}
    /\ last.input.category = Text(<<>>)
    /\ tasks[RowId(last.input.task_id)].category = None
    /\ \E i \in DOMAIN tasks \ {RowId(last.input.task_id)} :
          Truthy(tasks[i].category)


(***************************************************************************)
(* Properties of rejected calls                                            *)
(***************************************************************************)
\* add_task arguments that mix valid and invalid values
AllOrNothingAddInputs ==
    Dicts([title |-> {Text(title_a), Text(blank)},
           priority |-> {Absent, Text(high), Text(priority_Urgent)},
           due_date |-> {Absent, Text(date_padded), Text(date_feb_30)}])

\* update_task arguments that mix valid and invalid values
AllOrNothingUpdateInputs ==
    Dicts([task_id |-> TaskIds,
           title |-> {Absent, Text(title_a), Text(blank)},
           priority |-> {Absent, Text(high), Text(priority_Urgent)},
           status |-> {Absent, Text(in_progress), Text(status_done)},
           due_date |-> {Absent, Text(date_padded), Text(date_feb_30)}])

\* one of the arguments fails its validation: an empty title, a priority or
\* a status outside its set, a due date that is no date
HasInvalidArgument(data) ==
    \/ "title" \in DOMAIN data /\ strip(data.title.s) = <<>>
    \/ "priority" \in DOMAIN data /\ data.priority \notin VALID_PRIORITIES
    \/ "status" \in DOMAIN data /\ data.status \notin VALID_STATUSES
    \/ /\ "due_date" \in DOMAIN data
       /\ data.due_date.s # <<>>
       /\ ~(IsoForm(data.due_date.s) /\ ExistingDate(data.due_date.s))

\* the error strings of a failed validation
ValidationErrors ==
    {"Error: task title cannot be empty.", "Error: title cannot be empty.",
     "Error: invalid priority", "Error: invalid status",
     "Error: invalid due date format"}

\* the id add_task gives the next task on the connection
IdOfNextTask(conn) == handle_add_task(conn, [title |-> Text(title_a)]).result.id

\* C21: add_task and update_task with an argument that fails its validation
\* return an error string, raise nothing and leave the table and the id
\* sequence as they were, whatever the other arguments are; after a
\* rejected call the next add_task gets the id it would have got before.
\* Stated of every call the store can receive and of every call it has
\* received.
C21_RejectedCallsChangeNothing ==
    /\ [](\A d \in AllOrNothingAddInputs :
             HasInvalidArgument(d)
             => \E r \in {handle_add_task(Conn, d)} :
                   /\ ~r.raised
                   /\ r.result.kind \in ValidationErrors
                   /\ r.conn = Conn
                   /\ IdOfNextTask(r.conn) = IdOfNextTask(Conn))
    /\ [](\A d \in AllOrNothingUpdateInputs :
             (HasRow(Conn, d.task_id) /\ HasInvalidArgument(d))
             => \E r \in {handle_update_task(Conn, d)} :
                   /\ ~r.raised
                   /\ r.result.kind \in ValidationErrors
                   /\ r.conn = Conn)
    /\ [][(last' # last /\ last'.tool \in {"add_task", "update_task"}
           /\ last'.result.kind \in ValidationErrors)
          => /\ tasks' = tasks
             /\ seq' = seq
             /\ IdOfNextTask(ConnOn(tasks', seq', now')) = IdOfNextTask(Conn)]_vars

\* add_task has refused a due date while one task exists, and the id
\* sequence stands where that task left it
C21_Witness ==
    /\ last.tool = "add_task"
    /\ last.result.kind = "Error: invalid due date format"
    /\ DOMAIN tasks = {1}
    /\ seq = 1
    /\ IdOfNextTask(Conn) = 2


(***************************************************************************)
(* Properties of concurrent invocations                                    *)
(***************************************************************************)
\* C22: when the handlers of two invocations interleave between their read
\* and their write, a handler answers 'marked as completed', 'updated
\* successfully' or 'deleted' only if the row was there when its write ran,
\* and no task is answered as deleted by more than one call.
C22_SuccessMessagesAreTruthful ==
    /\ [][\A p \in Invocations :
             (inflight[p] # NoStatement /\ inflight'[p] = NoStatement)
             => /\ last'.result.kind \in WritingResults
                /\ RowId(inflight[p].input.task_id) \in DOMAIN tasks]_vars
    /\ [](\A i \in DOMAIN deleteReports : deleteReports[i] <= 1)


(***************************************************************************)
(* Properties of the store across the rounds of an invocation              *)
(***************************************************************************)
\* the tool results of the conversation, turn by turn
ToolResults(msgs) ==
    UNION {{msgs[k].content[j].content : j \in 1..Len(msgs[k].content)} :
              k \in {i \in 2..Len(msgs) : msgs[i].role = "user"}}

\* the table holds what the tool results say was done: a task reported as
\* added is there unless a result reports it deleted, a task reported as
\* completed is completed if it is there, a task reported as deleted is gone
HoldsChangesOf(results, t) ==
    \A r \in results :
        /\ r.kind = "Task added"
           => \/ r.id \in DOMAIN t
              \/ \E d \in results : d.kind = "Task deleted" /\ RowId(d.id) = r.id
        /\ r.kind = "Task marked as completed"
           => (RowId(r.id) \in DOMAIN t => t[RowId(r.id)].status = Text(completed))
        /\ r.kind = "Task deleted" => RowId(r.id) \notin DOMAIN t

\* C23: the store holds the change of every tool of the invocation from the
\* round the tool ran in; no step but a tool round changes the store; and
\* when the invocation ends with APIError or ConfigError, by a failed LLM
\* call or by the round cap, the store is left as its tools made it.
C23_ToolChangesSurviveErrors ==
    /\ [](pc # "idle" => HoldsChangesOf(ToolResults(messages), tasks))
    /\ [][pc # "respond" => (tasks' = tasks /\ seq' = seq)]_vars
    /\ [][(pc \in {"round", "call"} /\ pc' = "idle")
          => /\ outcome' \in {Raised("APIError"), Raised("ConfigError")}
             /\ tasks' = tasks
             /\ seq' = seq
             /\ HoldsChangesOf(ToolResults(messages), tasks')]_vars

\* an invocation whose first round added task 1 and completed it and whose
\* second LLM call failed: the task is in the store, completed
C23_Witness ==
    /\ pc = "idle"
    /\ variant = "repl"
    /\ outcome = Raised("APIError")
    /\ failure = "RateLimitError"
    /\ rounds = 2
    /\ seq = 1
    /\ DOMAIN tasks = {1}
    /\ tasks[1].status = Text(completed)

====
